---- MODULE Spec2Model ----
(***************************************************************************)
(* The resilient data-access layer of the Mars rover dashboard:            *)
(*   - UnifiedCacheSystem (src/src/api/roverData.js, lines 593-995): the   *)
(*     tiered TTL cache and the request deduplication wrapper;             *)
(*   - APIRateLimit / NASAApiService (src/src/api/nasaApiService.js): the  *)
(*     admission window and the retrying request loop.                     *)
(*                                                                         *)
(* Times are milliseconds, as returned by Date.now().  JavaScript strings  *)
(* that the code inspects (cache keys, key patterns) are sequences of      *)
(* one-character strings, so that startsWith and includes are computed.    *)
(* Cached payloads are written as their JSON text ("null", "0", "false",   *)
(* "\"\"", "{\"id\":1}").                                                  *)
(***************************************************************************)
EXTENDS Integers, Sequences, FiniteSets, TLC

VARIABLES
    now,              \* Date.now()
    ticks,            \* how many times the clock has been advanced
    cache,            \* UnifiedCacheSystem.cache : Map, in insertion order
    pendingRequests,  \* UnifiedCacheSystem.pendingRequests : key -> promise
    fetches,          \* the promises created by deduplicateRequest, by id
    calls,            \* what each deduplicateRequest call returned
    metrics,          \* UnifiedCacheSystem.metrics
    nextCleanup,      \* earliest time the cleanup interval fires next
    written,          \* history: key -> the last set of it still in force
    ckey,             \* the key handed to getCacheType
    ctype,            \* what getCacheType returned for it ("none": not yet)
    requests,         \* APIRateLimit.requests : timestamps, oldest first
    proc,             \* the makeRequest call in progress: loop position, data
    execs,            \* how many makeRequest calls have been started
    fnArgs,           \* the arguments of the rate limiter function under test
    fnResult,         \* what that function returned for them
    sink              \* what the cache has reported to its performanceMonitor

cacheVars == <<now, ticks, cache, pendingRequests, fetches, calls, metrics,
               nextCleanup, written>>
classifyVars == <<ckey, ctype>>
retryVars == <<requests, proc, execs>>
pureVars == <<fnArgs, fnResult>>
nonCacheVars == <<classifyVars, retryVars, pureVars>>

vars == <<cacheVars, classifyVars, retryVars, pureVars, sink>>

(***************************************************************************)
(* Bounds of the model.                                                    *)
(***************************************************************************)
MaxTicks == 1
MaxCalls == 2
MaxReads == 1

(***************************************************************************)
(* JavaScript values.                                                      *)
(***************************************************************************)
NULL == -1

Min(a, b) == IF a < b THEN a ELSE b
Max(a, b) == IF a > b THEN a ELSE b

\* ToBoolean of a payload, as applied by `if (cached)`.
Truthy(v) == v \notin {"null", "0", "false", "\"\""}

startsWith(s, p) == Len(p) <= Len(s) /\ SubSeq(s, 1, Len(p)) = p

includes(s, p) ==
    \E i \in 0..(Len(s) - Len(p)) : SubSeq(s, i + 1, i + Len(p)) = p

(***************************************************************************)
(* Key patterns and keys.                                                  *)
(***************************************************************************)
P_manifest == <<"m", "a", "n", "i", "f", "e", "s", "t", "_">>
P_rover_info == <<"r", "o", "v", "e", "r", "_", "i", "n", "f", "o", "_">>
P_photos_date == <<"p", "h", "o", "t", "o", "s", "_", "d", "a", "t", "e", "_">>
P_latest == <<"l", "a", "t", "e", "s", "t", "_">>
P_photos == <<"p", "h", "o", "t", "o", "s", "_">>
P_telemetry == <<"t", "e", "l", "e", "m", "e", "t", "r", "y", "_">>
P_rover_data == <<"r", "o", "v", "e", "r", "-", "d", "a", "t", "a", "-">>
P_status == <<"s", "t", "a", "t", "u", "s", "_">>
P_live == <<"l", "i", "v", "e", "_">>

K_manifest == <<"m", "a", "n", "i", "f", "e", "s", "t", "_", "p">>
K_latest == <<"l", "a", "t", "e", "s", "t", "_", "p">>
K_photos == <<"p", "h", "o", "t", "o", "s", "_", "5">>
K_status == <<"s", "t", "a", "t", "u", "s", "_", "x">>

(***************************************************************************)
(* cacheConfig, in the order Object.entries enumerates it.                 *)
(***************************************************************************)
cacheConfig ==
    << [type |-> "static", duration |-> 60 * 60 * 1000,
        patterns |-> <<P_manifest, P_rover_info>>],
       [type |-> "semiStatic", duration |-> 30 * 60 * 1000,
        patterns |-> <<P_photos_date, P_latest>>],
       [type |-> "dynamic", duration |-> 5 * 60 * 1000,
        patterns |-> <<P_photos, P_telemetry, P_rover_data>>],
       [type |-> "realTime", duration |-> 60 * 1000,
        patterns |-> <<P_status, P_live>>] >>

configOf(type) ==
    cacheConfig[CHOOSE i \in 1..Len(cacheConfig) : cacheConfig[i].type = type]

\* A plausible slip: the types are scanned in another order (dynamic first).
getCacheType_dynamicFirst(key) ==
    LET order == <<3, 1, 2, 4>>
        hit(n) == \E j \in 1..Len(cacheConfig[order[n]].patterns) :
                      startsWith(key, cacheConfig[order[n]].patterns[j])
        hits == {n \in 1..4 : hit(n)}
    IN  IF hits = {} THEN "dynamic"
        ELSE cacheConfig[order[CHOOSE n \in hits : \A m \in hits : n <= m]].type

getCacheType(key) ==
    LET hit(i) == \E j \in 1..Len(cacheConfig[i].patterns) :
                      startsWith(key, cacheConfig[i].patterns[j])
        hits == {i \in 1..Len(cacheConfig) : hit(i)}
    IN  IF hits = {} THEN "dynamic"
        ELSE cacheConfig[CHOOSE i \in hits : \A m \in hits : i <= m].type

getCacheDuration(key) == configOf(getCacheType(key)).duration

(***************************************************************************)
(* The Map this.cache: a sequence of entries in insertion order.           *)
(***************************************************************************)
indexOf(c, key) ==
    IF \E i \in 1..Len(c) : c[i].key = key
    THEN CHOOSE i \in 1..Len(c) : c[i].key = key
    ELSE 0

mapSet(c, e) ==
    IF indexOf(c, e.key) = 0 THEN Append(c, e)
    ELSE [c EXCEPT ![indexOf(c, e.key)] = e]

mapDelete(c, key) == SelectSeq(c, LAMBDA e : e.key # key)

\* JSON.stringify(data).length * 2
estimateSize(data) == Len(data) * 2

\* The cap on the entry count is 1000 in the source; the model keeps the same
\* test and the same tenth against a cap small enough for a run to exceed.
maxSize == 10

\* A plausible slip: no sort, so the entries inserted first go.
evictOldest_firstInserted(c, count) ==
    SubSeq(c, Min(count, Len(c)) + 1, Len(c))

\* Array.prototype.sort is stable: ties keep the insertion order.
evictOldest(c, count) ==
    LET before(i, j) == \/ c[i].lastAccessed < c[j].lastAccessed
                        \/ c[i].lastAccessed = c[j].lastAccessed /\ i < j
        rank(i) == Cardinality({j \in 1..Len(c) : before(j, i)}) + 1
        victims == {c[i].key : i \in {n \in 1..Len(c) : rank(n) <= count}}
    IN  SelectSeq(c, LAMBDA e : e.key \notin victims)

updateCacheSize(c) ==
    IF Len(c) > maxSize THEN evictOldest(c, maxSize \div 10) ELSE c

\* A plausible slip: every entry gets the dynamic tier's duration.
set_flatTTL(c, key, data, customTTL, t) ==
    updateCacheSize(mapSet(c,
        [key |-> key, data |-> data, timestamp |-> t,
         expires |-> t + configOf("dynamic").duration,
         accessCount |-> 0, lastAccessed |-> t,
         size |-> estimateSize(data), type |-> getCacheType(key)]))

\* set(key, data, customTTL): `customTTL || getCacheDuration(key)`.
set(c, key, data, customTTL, t) ==
    LET duration == IF customTTL = NULL \/ customTTL = 0
                    THEN getCacheDuration(key) ELSE customTTL
    IN  updateCacheSize(mapSet(c,
            [key |-> key, data |-> data, timestamp |-> t,
             expires |-> t + duration,
             accessCount |-> 0, lastAccessed |-> t,
             size |-> estimateSize(data), type |-> getCacheType(key)]))

\* A plausible slip: a hit renews the entry for its tier's duration.
get_slidingExpiry(c, m, key, t) ==
    LET i == indexOf(c, key) IN
    IF i = 0
    THEN [cache |-> c, metrics |-> [m EXCEPT !.misses = @ + 1],
          value |-> "null", hit |-> FALSE]
    ELSE IF t > c[i].expires
    THEN [cache |-> mapDelete(c, key),
          metrics |-> [m EXCEPT !.misses = @ + 1],
          value |-> "null", hit |-> FALSE]
    ELSE [cache |-> [c EXCEPT ![i].accessCount = @ + 1,
                              ![i].lastAccessed = t,
                              ![i].expires = t + getCacheDuration(key)],
          metrics |-> [m EXCEPT !.hits = @ + 1],
          value |-> c[i].data, hit |-> TRUE]

\* get(key): the value returned, and the cache and metrics it leaves.
get(c, m, key, t) ==
    LET i == indexOf(c, key) IN
    IF i = 0
    THEN [cache |-> c, metrics |-> [m EXCEPT !.misses = @ + 1],
          value |-> "null", hit |-> FALSE]
    ELSE IF t > c[i].expires
    THEN [cache |-> mapDelete(c, key),
          metrics |-> [m EXCEPT !.misses = @ + 1],
          value |-> "null", hit |-> FALSE]
    ELSE [cache |-> [c EXCEPT ![i].accessCount = @ + 1,
                              ![i].lastAccessed = t],
          metrics |-> [m EXCEPT !.hits = @ + 1],
          value |-> c[i].data, hit |-> TRUE]

\* The cache module's performanceMonitor starts as null and is assigned only
\* by loadPerformanceMonitor, which nothing calls: it is null at every get.
performanceMonitor == NULL

\* What get(key) reports to performanceMonitor: recordCacheMiss for a miss,
\* recordCacheMiss and recordCacheEviction for an expired entry,
\* recordCacheHit for a hit -- each behind `if (performanceMonitor)`.
reportGet(s, c, key, t) ==
    LET i == indexOf(c, key) IN
    IF performanceMonitor = NULL THEN s
    ELSE IF i = 0 THEN [s EXCEPT !.cacheMisses = @ + 1]
    ELSE IF t > c[i].expires
    THEN [s EXCEPT !.cacheMisses = @ + 1, !.evictions = @ + 1]
    ELSE [s EXCEPT !.cacheHits = @ + 1]

(***************************************************************************)
(* deduplicateRequest(key, requestFunction), up to its return: the cache   *)
(* lookup, the pending lookup, and the start of a new request.  `fs` is    *)
(* the list of promises created so far; a new one gets the next id.        *)
(***************************************************************************)
newFetch(key) == [key |-> key, state |-> "pending", result |-> "null"]

\* A plausible slip: the pending lookup is skipped.
deduplicateRequest_noPendingCheck(c, m, pend, fs, key, t) ==
    LET g == get(c, m, key, t)
        id == Len(fs) + 1
    IN  IF Truthy(g.value)
        THEN [cache |-> g.cache, metrics |-> g.metrics, pending |-> pend,
              fetches |-> fs, via |-> "cache", value |-> g.value, promise |-> 0]
        ELSE [cache |-> g.cache, metrics |-> g.metrics,
              pending |-> [k \in DOMAIN pend \cup {key} |->
                              IF k = key THEN id ELSE pend[k]],
              fetches |-> Append(fs, newFetch(key)),
              via |-> "request", value |-> "null", promise |-> id]

deduplicateRequest(c, m, pend, fs, key, t) ==
    LET g == get(c, m, key, t)
        id == Len(fs) + 1
    IN  IF Truthy(g.value)
        THEN [cache |-> g.cache, metrics |-> g.metrics, pending |-> pend,
              fetches |-> fs, via |-> "cache", value |-> g.value, promise |-> 0]
        ELSE IF key \in DOMAIN pend
        THEN [cache |-> g.cache, metrics |-> g.metrics, pending |-> pend,
              fetches |-> fs, via |-> "pending", value |-> "null",
              promise |-> pend[key]]
        ELSE [cache |-> g.cache, metrics |-> g.metrics,
              pending |-> [k \in DOMAIN pend \cup {key} |->
                              IF k = key THEN id ELSE pend[k]],
              fetches |-> Append(fs, newFetch(key)),
              via |-> "request", value |-> "null", promise |-> id]

\* pendingRequests.delete(key)
pendingDelete(pend, key) == [k \in DOMAIN pend \ {key} |-> pend[k]]

\* The .then handler of the request promise.  The request-time statistics
\* (totalRequestTime, requestTimestamps), which only getMetrics reads, are
\* left out, and with them the start time the handler closes over.
\* A plausible slip: the result is not written to the cache.
onFulfilled_noStore(c, m, pend, key, data, t) ==
    [cache |-> c,
     metrics |-> [m EXCEPT !.requests = @ + 1],
     pending |-> pendingDelete(pend, key)]

onFulfilled(c, m, pend, key, data, t) ==
    [cache |-> set(c, key, data, NULL, t),
     metrics |-> [m EXCEPT !.requests = @ + 1],
     pending |-> pendingDelete(pend, key)]

\* The .catch handler of the request promise.
\* A plausible slip: the pending entry is left behind on failure.
onRejected_keepPending(c, m, pend, key) ==
    [cache |-> c, metrics |-> [m EXCEPT !.errors = @ + 1], pending |-> pend]

onRejected(c, m, pend, key) ==
    [cache |-> c, metrics |-> [m EXCEPT !.errors = @ + 1],
     pending |-> pendingDelete(pend, key)]

\* invalidate(pattern), pattern a string: the cache left, and the count.
invalidate(c, pattern) ==
    [cache |-> SelectSeq(c, LAMBDA e : ~includes(e.key, pattern)),
     count |-> Cardinality({i \in 1..Len(c) : includes(c[i].key, pattern)})]

\* clear(pattern = null): `!pattern` holds for null and for "".
clear(c, pend, pattern) ==
    IF pattern = <<>>
    THEN [cache |-> <<>>, pending |-> <<>>]
    ELSE [cache |-> invalidate(c, pattern).cache, pending |-> pend]

\* optimize(): each entry is removed, promoted or left alone.  The product
\* currentDuration * 1.5 is taken down to whole milliseconds: Date.now()
\* is integral, so `now > expires` decides the same way.
\* A plausible slip: entries of every tier and access count are promoted.
optimize_promoteAll(c, t) ==
    LET removed(e) == e.accessCount = 0
                      /\ (t - e.timestamp) > 2 * getCacheDuration(e.key)
        promote(e) ==
            [e EXCEPT !.expires =
                Min(t + ((e.expires - e.timestamp) * 3) \div 2,
                    t + configOf("static").duration)]
        kept == SelectSeq(c, LAMBDA e : ~removed(e))
    IN  [i \in 1..Len(kept) |-> promote(kept[i])]

optimize(c, t) ==
    LET removed(e) == e.accessCount = 0
                      /\ (t - e.timestamp) > 2 * getCacheDuration(e.key)
        promoted(e) == e.accessCount > 10 /\ e.type # "static"
        promote(e) ==
            [e EXCEPT !.expires =
                Min(t + ((e.expires - e.timestamp) * 3) \div 2,
                    t + configOf("static").duration)]
        kept == SelectSeq(c, LAMBDA e : ~removed(e))
    IN  [i \in 1..Len(kept) |->
            IF promoted(kept[i]) THEN promote(kept[i]) ELSE kept[i]]

\* The callback of startCleanupInterval.
cleanup(c, t) == SelectSeq(c, LAMBDA e : ~(t > e.expires))

(***************************************************************************)
(* The state after construction.                                           *)
(***************************************************************************)
CacheInit ==
    /\ now = 0
    /\ ticks = 0
    /\ cache = <<>>
    /\ pendingRequests = <<>>
    /\ fetches = <<>>
    /\ calls = <<>>
    /\ metrics = [hits |-> 0, misses |-> 0, requests |-> 0, errors |-> 0]
    /\ nextCleanup = 60 * 1000
    /\ written = <<>>
    /\ sink = [cacheHits |-> 0, cacheMisses |-> 0, evictions |-> 0]

ClassifyIdle == ckey = <<>> /\ ctype = "none"

PureIdle == fnArgs = [fn |-> "none"] /\ fnResult = [done |-> FALSE]

\* No makeRequest call yet: the loop position and locals before the call.
noError == [kind |-> "none", status |-> NULL]

idleProc ==
    [ pc |-> "idle", attempt |-> 0, netCalls |-> 0, sleeps |-> <<>>,
      log |-> <<>>, wakeAt |-> 0, lastError |-> noError,
      outcome |-> "none", error |-> noError ]

RetryIdle ==
    /\ requests = <<>>
    /\ proc = idleProc
    /\ execs = 0

(***************************************************************************)
(* The history variable `written`: for each key, the value and time of     *)
(* the last set of it, forgotten when the key is invalidated, cleared or   *)
(* evicted for capacity, and marked once optimize() has changed the        *)
(* entry's expiry.                                                         *)
(***************************************************************************)
keysOf(c) == {c[i].key : i \in 1..Len(c)}

noteSet(w, c, c2, key, data, customTTL, t) ==
    [k \in ((DOMAIN w \cup {key}) \ ((keysOf(c) \cup {key}) \ keysOf(c2))) |->
        IF k = key
        THEN [value |-> data, at |-> t, ttl |-> customTTL, promoted |-> FALSE,
              lapsed |-> FALSE]
        ELSE w[k]]

\* The clock has passed the expiry of the entry the last set of k stored.
noteLapse(w, c, t) ==
    [k \in DOMAIN w |->
        IF indexOf(c, k) # 0 /\ t > c[indexOf(c, k)].expires
        THEN [w[k] EXCEPT !.lapsed = TRUE]
        ELSE w[k]]

noteDrop(w, dropped) == [k \in DOMAIN w \ dropped |-> w[k]]

notePromotions(w, c, c2) ==
    [k \in DOMAIN w |->
        IF /\ indexOf(c, k) # 0 /\ indexOf(c2, k) # 0
           /\ c2[indexOf(c2, k)].expires # c[indexOf(c, k)].expires
        THEN [w[k] EXCEPT !.promoted = TRUE]
        ELSE w[k]]

(***************************************************************************)
(* The operations.                                                         *)
(***************************************************************************)
unexpired(c, key, t) ==
    indexOf(c, key) # 0 /\ ~(t > c[indexOf(c, key)].expires)

inflightFor(fs, key) ==
    {f \in 1..Len(fs) : fs[f].key = key /\ fs[f].state = "pending"}

\* A caller invokes deduplicateRequest(key, requestFunction).  The promise
\* an async function returns follows the value or promise it returns.
Resolve(key) ==
    LET r == deduplicateRequest(cache, metrics, pendingRequests, fetches,
                                key, now)
        old == r.promise \in 1..Len(fetches)
    IN  /\ Len(calls) < MaxCalls
        /\ cache' = r.cache
        /\ metrics' = r.metrics
        /\ pendingRequests' = r.pending
        /\ fetches' = r.fetches
        /\ sink' = reportGet(sink, cache, key, now)
        /\ calls' = Append(calls,
              [key |-> key, via |-> r.via, promise |-> r.promise,
               state |-> IF r.via = "cache" THEN "fulfilled"
                         ELSE IF old THEN fetches[r.promise].state
                         ELSE "pending",
               result |-> IF r.via = "cache" THEN r.value
                          ELSE IF old THEN fetches[r.promise].result
                          ELSE "null"])
        /\ UNCHANGED <<nonCacheVars, now, ticks, nextCleanup, written>>

\* Every caller holding promise f observes its settlement.
deliver(cs, f, state, result) ==
    [i \in 1..Len(cs) |->
        IF cs[i].promise = f
        THEN [cs[i] EXCEPT !.state = state, !.result = result]
        ELSE cs[i]]

\* requestFunction() of promise f fulfils with data.
Fulfil(f, data) ==
    /\ f \in 1..Len(fetches)
    /\ fetches[f].state = "pending"
    /\ LET r == onFulfilled(cache, metrics, pendingRequests, fetches[f].key,
                            data, now)
       IN  /\ cache' = r.cache
           /\ metrics' = r.metrics
           /\ pendingRequests' = r.pending
           /\ written' = noteSet(written, cache, r.cache, fetches[f].key,
                                 data, NULL, now)
    /\ fetches' = [fetches EXCEPT ![f].state = "fulfilled", ![f].result = data]
    /\ calls' = deliver(calls, f, "fulfilled", data)
    /\ UNCHANGED <<nonCacheVars, sink, now, ticks, nextCleanup>>

\* requestFunction() of promise f rejects with error.
Reject(f, error) ==
    /\ f \in 1..Len(fetches)
    /\ fetches[f].state = "pending"
    /\ LET r == onRejected(cache, metrics, pendingRequests, fetches[f].key)
       IN  /\ cache' = r.cache
           /\ metrics' = r.metrics
           /\ pendingRequests' = r.pending
    /\ fetches' = [fetches EXCEPT ![f].state = "rejected", ![f].result = error]
    /\ calls' = deliver(calls, f, "rejected", error)
    /\ UNCHANGED <<nonCacheVars, sink, now, ticks, nextCleanup, written>>

Get(key) ==
    LET g == get(cache, metrics, key, now)
    IN  /\ cache' = g.cache
        /\ metrics' = g.metrics
        /\ sink' = reportGet(sink, cache, key, now)
        /\ UNCHANGED <<nonCacheVars, now, ticks, pendingRequests, fetches, calls,
                       nextCleanup, written>>

Set(key, data, customTTL) ==
    /\ cache' = set(cache, key, data, customTTL, now)
    /\ written' = noteSet(written, cache, cache', key, data, customTTL, now)
    /\ UNCHANGED <<nonCacheVars, sink, now, ticks, pendingRequests, fetches, calls, metrics,
                   nextCleanup>>

Invalidate(pattern) ==
    /\ cache' = invalidate(cache, pattern).cache
    /\ written' = noteDrop(written,
                           {k \in DOMAIN written : includes(k, pattern)})
    /\ UNCHANGED <<nonCacheVars, sink, now, ticks, pendingRequests, fetches, calls, metrics,
                   nextCleanup>>

Clear(pattern) ==
    LET r == clear(cache, pendingRequests, pattern)
    IN  /\ cache' = r.cache
        /\ pendingRequests' = r.pending
        /\ written' = noteDrop(written,
                               {k \in DOMAIN written : includes(k, pattern)})
        /\ UNCHANGED <<nonCacheVars, sink, now, ticks, fetches, calls, metrics, nextCleanup>>

Optimize ==
    /\ cache' = optimize(cache, now)
    /\ written' = notePromotions(written, cache, cache')
    /\ UNCHANGED <<nonCacheVars, sink, now, ticks, pendingRequests, fetches, calls, metrics,
                   nextCleanup>>

\* The cleanup interval fires (every minute, never early).
Sweep ==
    /\ now >= nextCleanup
    /\ cache' = cleanup(cache, now)
    /\ nextCleanup' = now + 60 * 1000
    /\ UNCHANGED <<nonCacheVars, sink, now, ticks, pendingRequests, fetches, calls, metrics,
                   written>>

\* Time passes.
Tick(d) ==
    /\ now' = now + d
    /\ ticks' = ticks + 1
    /\ written' = noteLapse(written, cache, now')
    /\ UNCHANGED <<nonCacheVars, sink, cache, pendingRequests, fetches, calls, metrics,
                   nextCleanup>>

(***************************************************************************)
(* Spec: the request coordinator over the cache.                           *)
(***************************************************************************)
Keys == {K_status}
Payloads == {"0", "{\"id\":1}"}
Errors == {"E1", "E2"}
Patterns == {P_status}
Steps == {61 * 1000}

Init == CacheInit /\ ClassifyIdle /\ RetryIdle /\ PureIdle

Next ==
    \/ \E k \in Keys : Resolve(k)
    \/ \E f \in 1..MaxCalls, v \in Payloads : Fulfil(f, v)
    \/ \E f \in 1..MaxCalls, e \in Errors : Reject(f, e)
    \/ \E k \in Keys : metrics.hits + metrics.misses < MaxReads /\ Get(k)
    \/ \E k \in Keys, v \in Payloads : Set(k, v, NULL)
    \/ \E p \in Patterns : Invalidate(p)
    \/ \E p \in Patterns \cup {<<>>} : Clear(p)
    \/ Optimize
    \/ Sweep
    \/ \E d \in Steps : ticks < MaxTicks /\ Tick(d)

Spec == Init /\ [][Next]_vars

(***************************************************************************)
(* C1.  Callers that invoke deduplicateRequest for a key while the cache   *)
(* has no unexpired entry for it and a request for it is still unsettled   *)
(* start no request of their own: they receive the promise of the request  *)
(* in flight, hence its outcome.                                           *)
(***************************************************************************)
C1_OneFetchForConcurrentCallers ==
    [][\A k \in Keys :
          (Resolve(k) /\ ~unexpired(cache, k, now)
                      /\ inflightFor(fetches, k) # {})
          => /\ fetches' = fetches
             /\ calls'[Len(calls')].promise \in inflightFor(fetches, k)]_vars

(***************************************************************************)
(* C2.  In every reachable state at most one request started by            *)
(* deduplicateRequest is unsettled for any given key.                      *)
(***************************************************************************)
C2_AtMostOneInflightPerKey ==
    \A k \in Keys : Cardinality(inflightFor(fetches, k)) <= 1

(***************************************************************************)
(* C3.  When the request of a key rejects: every caller holding its        *)
(* promise observes that rejection, the cache is left as it was (a key     *)
(* that was a miss is still a miss), the key has no pending request, and   *)
(* a deduplicateRequest for the key issued next starts a new request       *)
(* unless the cache already answers it.                                    *)
(***************************************************************************)
C3_RejectionSharedAndNotCached ==
    [][\A f \in 1..Len(fetches), e \in Errors :
          Reject(f, e) =>
            LET k == fetches[f].key
                next == deduplicateRequest(cache', metrics', pendingRequests',
                                           fetches', k, now')
            IN  /\ \A i \in 1..Len(calls) :
                       calls[i].promise = f
                       => calls'[i].state = "rejected" /\ calls'[i].result = e
                /\ cache' = cache
                /\ (~get(cache, metrics, k, now).hit
                       => ~get(cache', metrics', k, now').hit)
                /\ k \notin DOMAIN pendingRequests'
                /\ (~get(cache, metrics, k, now).hit
                       => next.via = "request")]_vars

\* Two callers share a request that has rejected, and nothing is cached.
C3_Witness ==
    \E f \in 1..Len(fetches) :
        /\ fetches[f].state = "rejected"
        /\ Cardinality({i \in 1..Len(calls) :
                           calls[i].promise = f /\ calls[i].state = "rejected"
                           /\ calls[i].result = fetches[f].result}) >= 2
        /\ indexOf(cache, fetches[f].key) = 0
        /\ fetches[f].key \notin DOMAIN pendingRequests

(***************************************************************************)
(* C4.  A deduplicateRequest for a key whose cache entry is unexpired      *)
(* returns the entry's value and starts no request, whatever the value.    *)
(***************************************************************************)
C4_UnexpiredEntryAnswersResolve ==
    [][\A k \in Keys :
          (Resolve(k) /\ unexpired(cache, k, now))
          => /\ fetches' = fetches
             /\ calls'[Len(calls')].via = "cache"
             /\ calls'[Len(calls')].result
                    = cache[indexOf(cache, k)].data]_vars


\* ---------------------------------------------------------------------------
\* Classification of keys (getCacheType) as a function under test.
\* ---------------------------------------------------------------------------

\* Keys are built from a head and a tail so that every pattern occurs whole,
\* cut short, shifted by one character and followed by another pattern.
MaxTail == 1

KeyHeads ==
    { P_manifest, P_rover_info, P_photos_date, P_latest, P_photos,
      P_telemetry, P_rover_data, P_status, P_live,
      <<>>,
      <<"m","a","n","i","f","e","s","t">>,
      <<"r","o","v","e","r","_">>,
      <<"r","o","v","e","r","-","d","a","t","a","_">>,
      <<"p","h","o","t","o","s">>,
      <<"p","h","o","t","o","s","_","d","a","t","e">>,
      <<"x">> \o P_manifest,
      <<"x">> \o P_status,
      <<"M","a","n","i","f","e","s","t","_">> }

KeyTails ==
    UNION { [1..n -> {"5", "_"}] : n \in 0..MaxTail }
        \cup { P_manifest, P_status, <<"d","a","t","e","_">> }

ClassifyKeys == { h \o t : h \in KeyHeads, t \in KeyTails }

ClassifyInit ==
    /\ CacheInit
    /\ RetryIdle
    /\ PureIdle
    /\ ckey \in ClassifyKeys
    /\ ctype = "none"

\* One call of getCacheType(ckey), at whatever time and cache content.
Classify ==
    /\ ctype' = getCacheType(ckey)
    /\ UNCHANGED <<cacheVars, retryVars, pureVars, sink, ckey>>

ClassifyNext ==
    \/ Classify
    \/ \E v \in Payloads : Len(cache) = 0 /\ Set(ckey, v, NULL)
    \/ \E d \in Steps : ticks < MaxTicks /\ Tick(d)

SpecClassify == ClassifyInit /\ [][ClassifyNext]_vars

\* C6 -- getCacheType depends on the key alone and follows the prefix table:
\* manifest_ and rover_info_ are static; photos_date_ and latest_ are
\* semiStatic; photos_ (when not photos_date_), telemetry_ and rover-data- are
\* dynamic; status_ and live_ are realTime; every other key is dynamic.  The
\* tier is the same whenever it is computed and whatever the cache holds, and
\* the tier stored with an entry by set is that same tier.
TableTier(k) ==
    CASE startsWith(k, P_manifest) \/ startsWith(k, P_rover_info) -> "static"
      [] startsWith(k, P_photos_date) \/ startsWith(k, P_latest) -> "semiStatic"
      [] /\ ~startsWith(k, P_photos_date)
         /\ \/ startsWith(k, P_photos)
            \/ startsWith(k, P_telemetry)
            \/ startsWith(k, P_rover_data) -> "dynamic"
      [] startsWith(k, P_status) \/ startsWith(k, P_live) -> "realTime"
      [] OTHER -> "dynamic"

C6_ClassifyMatchesPrefixTable ==
    /\ ctype # "none" => ctype = TableTier(ckey)
    /\ \A i \in 1..Len(cache) : cache[i].type = TableTier(cache[i].key)
    /\ getCacheType(ckey) = TableTier(ckey)

\* A photos_date_ key has been classified after time has passed and while the
\* cache holds an entry.
C6_Witness ==
    /\ startsWith(ckey, P_photos_date)
    /\ ctype = "semiStatic"
    /\ now > 0
    /\ Len(cache) > 0


\* ---------------------------------------------------------------------------
\* Lifetime of an entry: one key per behaviour, written with the tier's
\* duration and then read, promoted and swept while time passes.
\* ---------------------------------------------------------------------------

MaxTTLTicks == 2
MaxTTLReads == 11

TierKeys == {K_manifest, K_latest, K_photos, K_status}
TTLPayloads == {"M"}
TTLSteps == { 1, 60 * 1000, 2 * 60 * 1000, 5 * 60 * 1000, 30 * 60 * 1000,
              59 * 60 * 1000, 60 * 60 * 1000 }

TTLNext ==
    \/ \E k \in TierKeys, v \in TTLPayloads :
          /\ \/ written = <<>>
             \/ k \in DOMAIN written /\ metrics.hits + metrics.misses = 0
          /\ Set(k, v, NULL)
    \/ \E k \in DOMAIN written :
          metrics.hits + metrics.misses < MaxTTLReads /\ Get(k)
    \/ Optimize
    \/ Sweep
    \/ \E d \in TTLSteps : ticks < MaxTTLTicks /\ Tick(d)

SpecTTL == Init /\ [][TTLNext]_vars

\* The durations the tiers are documented to have, in milliseconds.
TierTTL(k) ==
    CASE TableTier(k) = "static" -> 60 * 60 * 1000
      [] TableTier(k) = "semiStatic" -> 30 * 60 * 1000
      [] TableTier(k) = "dynamic" -> 5 * 60 * 1000
      [] TableTier(k) = "realTime" -> 60 * 1000

\* What get(k) answers in the current state, against the last set of k.
AnswersByAge(k) ==
    LET g == get(cache, metrics, k, now)
    IN  IF now - written[k].at <= TierTTL(k)
        THEN g.hit /\ g.value = written[k].value
        ELSE ~g.hit

\* C5 (as stated) -- after set(k, v) without a duration of its own and with no
\* later set, invalidate, clear or eviction of k, get(k) returns v while
\* now - setTime <= the tier's duration and misses at every later time.
C5_HitUntilTierTTLThenMiss ==
    \A k \in DOMAIN written : written[k].ttl = NULL => AnswersByAge(k)

\* C5 (amended) -- the same, for entries that optimize() has not promoted.
C5_HitUntilTierTTLUnlessPromoted ==
    \A k \in DOMAIN written :
        (written[k].ttl = NULL /\ ~written[k].promoted) => AnswersByAge(k)

\* Scenario A: manifest_ key set, read with a hit at +59 min, read with a miss
\* at +61 min.
C5_Witness ==
    /\ K_manifest \in DOMAIN written
    /\ ~written[K_manifest].promoted
    /\ now - written[K_manifest].at = 61 * 60 * 1000
    /\ metrics.hits = 1
    /\ metrics.misses = 1
    /\ indexOf(cache, K_manifest) = 0


\* ---------------------------------------------------------------------------
\* APIRateLimit and NASAApiService.makeRequest (nasaApiService.js).
\* ---------------------------------------------------------------------------

\* The hourly quota is 1000 in the source; the model keeps the same admission
\* test against a quota small enough for a run to fill the window.
MAX_REQUESTS_PER_HOUR == 2

retryConfig ==
    [ maxAttempts |-> 4, baseDelay |-> 1000, maxDelay |-> 10000,
      backoffMultiplier |-> 2, jitter |-> TRUE,
      jitterMaxPercent |-> 10 ]                \* jitterMax: 0.1

oneHour == 60 * 60 * 1000

\* this.requests.filter(time => time > oneHourAgo)
recentRequests(reqs, t) ==
    SelectSeq(reqs, LAMBDA time : time > t - oneHour)

canMakeRequest_offByOne(reqs, t) ==
    [ requests |-> recentRequests(reqs, t),
      ok |-> Len(recentRequests(reqs, t)) <= MAX_REQUESTS_PER_HOUR ]

\* canMakeRequest : the pruned window and the verdict on it
canMakeRequest(reqs, t) ==
    [ requests |-> recentRequests(reqs, t),
      ok |-> Len(recentRequests(reqs, t)) < MAX_REQUESTS_PER_HOUR ]

recordRequest(reqs, t) == Append(reqs, t)

RECURSIVE pow(_, _)
pow(b, e) == IF e = 0 THEN 1 ELSE b * pow(b, e - 1)

\* calculateBackoffDelay(attempt); rnd is Math.random() in thousandths.
calculateBackoffDelay_nextAttempt(attempt, rnd) ==
    retryConfig.baseDelay * pow(retryConfig.backoffMultiplier, attempt)

calculateBackoffDelay_uncapped(attempt, rnd) ==
    LET d == retryConfig.baseDelay * pow(retryConfig.backoffMultiplier, attempt - 1)
    IN  d + ((rnd - 500) * 2 * ((d * retryConfig.jitterMaxPercent) \div 100)) \div 1000

calculateBackoffDelay(attempt, rnd) ==
    LET exponentialDelay ==
            retryConfig.baseDelay * pow(retryConfig.backoffMultiplier, attempt - 1)
        cappedDelay == Min(exponentialDelay, retryConfig.maxDelay)
        jitterAmount == (cappedDelay * retryConfig.jitterMaxPercent) \div 100
        jitter == ((rnd - 500) * 2 * jitterAmount) \div 1000
    IN  IF retryConfig.jitter THEN Max(0, cappedDelay + jitter) ELSE cappedDelay

\* Errors as makeRequest sees them.  An HTTP error carries response.status and a
\* message "API request failed: <status> ..."; a failed fetch is a TypeError
\* whose message contains "fetch"; a body that does not parse is a SyntaxError;
\* the admission error is a plain Error.  None of the last three has a status.
httpError(status) == [kind |-> "http", status |-> status]
networkError == [kind |-> "network", status |-> NULL]
parseError == [kind |-> "parse", status |-> NULL]
admissionError == [kind |-> "admission", status |-> NULL]
\* A failed fetch is a TypeError in every engine, but the message text is the
\* engine's own: this is one whose message does not contain "fetch".
transportError == [kind |-> "transport", status |-> NULL]

\* shouldRetry: the status is read from error.response.status, else from the
\* message; 0 and "no status" are both falsy in `if (statusCode)`.
shouldRetry_retry4xx(error, attempt) ==
    attempt < retryConfig.maxAttempts

shouldRetry_noCap(error, attempt) ==
    ~(error.status >= 400 /\ error.status < 500 /\ error.status # 429)

shouldRetry_no429(error, attempt) ==
    attempt < retryConfig.maxAttempts /\ ~(error.status >= 400 /\ error.status < 500)

shouldRetry(error, attempt) ==
    LET statusCode == IF error.kind = "http" THEN error.status ELSE NULL
    IN  IF attempt >= retryConfig.maxAttempts THEN FALSE
        ELSE IF statusCode # NULL /\ statusCode # 0
        THEN IF statusCode = 429 \/ (statusCode >= 500 /\ statusCode < 600)
             THEN TRUE
             ELSE IF statusCode >= 400 /\ statusCode < 500 THEN FALSE
             ELSE TRUE
        ELSE TRUE

\* categorizeError(error, statusCode); statusCode is NULL when the caller
\* passes none (every comparison with undefined is false).
categorizeError(error, statusCode) ==
    IF statusCode = 429 THEN "RATE_LIMIT"
    ELSE IF statusCode = 403 THEN "AUTH_ERROR"
    ELSE IF statusCode = 404 THEN "NOT_FOUND"
    ELSE IF statusCode >= 400 /\ statusCode < 500 THEN "CLIENT_ERROR"
    ELSE IF statusCode >= 500 THEN "SERVER_ERROR"
    ELSE IF error.kind = "network" THEN "NETWORK_ERROR"
    ELSE "UNKNOWN_ERROR"


\* One makeRequest call.  pc is the await the call is parked at; log is what
\* the call has handed to performanceMonitor.recordApiRequest, in order
\* (success flag and errorType; the durations are left out); sleeps lists
\* every sleep(delay) with the attempt it was computed in.
recorded(p, success, errorType) ==
    [p EXCEPT !.log = Append(@, [success |-> success, errorType |-> errorType])]

thrown(p, error) ==
    [p EXCEPT !.pc = "done", !.outcome = "error", !.error = error]

asleep(p, delay, t) ==
    [p EXCEPT !.pc = "sleeping", !.wakeAt = t + delay,
              !.sleeps = Append(@, [attempt |-> p.attempt, delay |-> delay])]

\* lines 119-132: admission, then the first pass of the loop up to the fetch
beginRequest(reqs, t) ==
    LET adm == canMakeRequest(reqs, t)
    IN  IF ~adm.ok
        THEN [ requests |-> adm.requests,
               proc |-> thrown(recorded(idleProc, FALSE, "RATE_LIMIT_EXCEEDED"),
                               admissionError) ]
        ELSE [ requests |-> recordRequest(adm.requests, t),
               proc |-> [idleProc EXCEPT !.pc = "fetching", !.attempt = 1,
                                         !.netCalls = 1] ]

\* lines 179-201: the catch block
onCaught(p, error, t, rnd) ==
    LET q == [p EXCEPT !.lastError = error]
    IN  IF shouldRetry(error, p.attempt)
        THEN asleep(recorded(q, FALSE, categorizeError(error, NULL)),
                    calculateBackoffDelay(p.attempt, rnd), t)
        ELSE thrown(recorded(q, FALSE, categorizeError(error, NULL)), error)

\* lines 134-164: a response that is not ok; the throw of line 162 lands in
\* the catch block of the same pass
onNotOk(p, statusCode, t, rnd) ==
    LET error == httpError(statusCode)
        errorInfo == categorizeError(error, statusCode)
    IN  IF shouldRetry(error, p.attempt)
        THEN asleep(recorded([p EXCEPT !.lastError = error], FALSE, errorInfo),
                    calculateBackoffDelay(p.attempt, rnd), t)
        ELSE onCaught(recorded(p, FALSE, errorInfo), error, t, rnd)

\* lines 166-177: ok response whose body parses
onSuccess(p) ==
    [recorded(p, TRUE, "none") EXCEPT !.pc = "done", !.outcome = "success"]

\* `continue` after the sleep: attempt++, the loop test, then lines 130-132;
\* lines 204-208 when the loop test fails
afterSleep(p, reqs, t) ==
    LET a == p.attempt + 1
    IN  IF a <= retryConfig.maxAttempts
        THEN [ requests |-> recordRequest(reqs, t),
               proc |-> [p EXCEPT !.pc = "fetching", !.attempt = a,
                                  !.netCalls = @ + 1] ]
        ELSE [ requests |-> reqs,
               proc |-> thrown(recorded([p EXCEPT !.attempt = a], FALSE,
                                        categorizeError(p.lastError, NULL)),
                               p.lastError) ]


\* makeRequest is called (again, once the previous call has settled).
MaxExecs == 2
MaxRetryTicks == 1

Start ==
    /\ proc.pc \in {"idle", "done"}
    /\ execs < MaxExecs
    /\ LET r == beginRequest(requests, now)
       IN  requests' = r.requests /\ proc' = r.proc
    /\ execs' = execs + 1
    /\ UNCHANGED <<cacheVars, classifyVars, pureVars, sink>>

\* The fetch of the current attempt settles: with a response (ok or not), or
\* with a transport failure, or with an ok response whose json() rejects.
Respond(resp, rnd) ==
    /\ proc.pc = "fetching"
    /\ proc' = CASE resp.kind = "network" -> onCaught(proc, networkError, now, rnd)
                 [] resp.kind = "badBody" -> onCaught(proc, parseError, now, rnd)
                 [] resp.kind = "http" /\ resp.status \in 200..299 ->
                        onSuccess(proc)
                 [] OTHER -> onNotOk(proc, resp.status, now, rnd)
    /\ UNCHANGED <<cacheVars, classifyVars, pureVars, sink, requests, execs>>

\* The timer of sleep(delay) fires, no earlier than the delay asked for.
Wake ==
    /\ proc.pc = "sleeping"
    /\ now' = Max(now, proc.wakeAt)
    /\ LET r == afterSleep(proc, requests, now')
       IN  requests' = r.requests /\ proc' = r.proc
    /\ UNCHANGED <<ticks, cache, pendingRequests, fetches, calls, metrics,
                   nextCleanup, written, classifyVars, pureVars, sink, execs>>

Statuses == {200, 400, 403, 404, 429, 503}
Responses ==
    { [kind |-> "http", status |-> s] : s \in Statuses }
        \cup { [kind |-> "network", status |-> NULL],
               [kind |-> "badBody", status |-> 200] }
RandomDraws == {0, 995}
RetrySteps == {oneHour}

\* Within a call the clock advances through the sleeps; between calls it is
\* stepped by an hour, which empties the admission window.
RetryNext ==
    \/ Start
    \/ \E resp \in Responses, rnd \in RandomDraws : Respond(resp, rnd)
    \/ Wake
    \/ \E d \in RetrySteps :
          ticks < MaxRetryTicks /\ proc.pc \in {"idle", "done"} /\ Tick(d)

SpecRetry == Init /\ [][RetryNext]_vars

\* Every fetch settles and every sleep timer fires.
SpecRetryFair ==
    /\ SpecRetry
    /\ WF_vars(\E resp \in Responses, rnd \in RandomDraws : Respond(resp, rnd))
    /\ WF_vars(Wake)


\* Timestamps of the window that are less than an hour old at time t.
withinLastHour(reqs, t) == {i \in 1..Len(reqs) : t - reqs[i] < 60 * 60 * 1000}

\* C7 -- when the window already holds quota-many timestamps of the last
\* hour, makeRequest fails at once with the admission error and the
\* RATE_LIMIT_EXCEEDED record: no fetch, no attempt, no sleep, and the window
\* gains no timestamp.
C7_FullWindowRejectsWithoutAttempt ==
    [][(Start /\ Cardinality(withinLastHour(requests, now)) >= MAX_REQUESTS_PER_HOUR)
          => /\ proc'.pc = "done"
             /\ proc'.outcome = "error"
             /\ proc'.error.kind = "admission"
             /\ proc'.log = <<[success |-> FALSE, errorType |-> "RATE_LIMIT_EXCEEDED"]>>
             /\ proc'.netCalls = 0
             /\ proc'.attempt = 0
             /\ proc'.sleeps = <<>>
             /\ now' = now
             /\ Len(requests') = Cardinality(withinLastHour(requests, now))
             /\ \A i \in 1..Len(requests') :
                   \E j \in 1..Len(requests) : requests'[i] = requests[j]]_vars

\* A second call was refused on a full window.
C7_Witness ==
    /\ execs >= 2
    /\ proc.pc = "done"
    /\ proc.error.kind = "admission"
    /\ Cardinality(withinLastHour(requests, now)) >= MAX_REQUESTS_PER_HOUR

\* C8 -- a 404 ends the call with that error, recorded as NOT_FOUND, with no
\* further fetch and no sleep; so does every other 4xx status except 429,
\* whatever the attempt number.
ClientStatuses == {s \in Statuses : s >= 400 /\ s < 500 /\ s # 429}

C8_ClientErrorEndsCallWithoutRetry ==
    [][\A s \in ClientStatuses, rnd \in RandomDraws :
          Respond([kind |-> "http", status |-> s], rnd)
          => /\ proc'.pc = "done"
             /\ proc'.outcome = "error"
             /\ proc'.error = [kind |-> "http", status |-> s]
             /\ proc'.netCalls = proc.netCalls
             /\ proc'.attempt = proc.attempt
             /\ proc'.sleeps = proc.sleeps
             /\ requests' = requests
             /\ now' = now
             /\ s = 404 => proc'.log[Len(proc.log) + 1].errorType = "NOT_FOUND"
             /\ proc.attempt = 1 => proc'.netCalls = 1 /\ proc'.sleeps = <<>>]_vars

\* A call answered 404 on its first attempt has ended.
C8_Witness ==
    /\ proc.pc = "done"
    /\ proc.error = [kind |-> "http", status |-> 404]
    /\ proc.netCalls = 1
    /\ proc.sleeps = <<>>


\* C9 -- a call that succeeds at attempt k+1 after k retryable failures
\* (429, 5xx, transport failure, unreadable body) made k+1 fetches and slept
\* exactly k times, the i-th sleep computed in attempt i (within 10% of
\* 1000 * 2^(i-1) ms) and lying between fetch i and fetch i+1.
NominalDelay == <<1000, 2000, 4000, 8000>>

RetryableTypes == {"RATE_LIMIT", "SERVER_ERROR", "NETWORK_ERROR", "UNKNOWN_ERROR"}

C9_SuccessAfterKFailuresSleepsKTimes ==
    (proc.pc = "done" /\ proc.outcome = "success") =>
        LET k == proc.attempt - 1
            first == Len(requests) - proc.attempt
        IN  /\ k >= 0 /\ k < 4
            /\ proc.netCalls = k + 1
            /\ Len(proc.sleeps) = k
            /\ Len(proc.log) = k + 1
            /\ proc.log[k + 1].success
            /\ \A i \in 1..k :
                  /\ ~proc.log[i].success
                  /\ proc.log[i].errorType \in RetryableTypes
                  /\ proc.sleeps[i].attempt = i
                  /\ 10 * proc.sleeps[i].delay >= 9 * NominalDelay[i]
                  /\ 10 * proc.sleeps[i].delay <= 11 * NominalDelay[i]
                  /\ requests[first + i + 1] - requests[first + i]
                        >= proc.sleeps[i].delay

\* 429, 429, 200: success at the third attempt after two sleeps.
C9_Witness ==
    /\ proc.pc = "done"
    /\ proc.outcome = "success"
    /\ proc.attempt = 3
    /\ Len(proc.sleeps) = 2
    /\ proc.log[1].errorType = "RATE_LIMIT"
    /\ proc.log[2].errorType = "RATE_LIMIT"

\* C10 -- a call never passes attempt 4, makes at most 4 fetches and sleeps
\* at most 3 times, it ends with a success or an error, and when every fetch
\* settles and every sleep timer fires a call in progress does end.
C10_CallEndsWithinMaxAttempts ==
    /\ [](/\ proc.attempt <= 4
          /\ proc.netCalls <= 4
          /\ Len(proc.sleeps) <= 3
          /\ proc.pc = "done" => proc.outcome \in {"success", "error"}
          /\ proc.pc # "done" => proc.outcome = "none")
    /\ [](proc.pc \in {"fetching", "sleeping"} => <>(proc.pc = "done"))

\* A call has ended in error after four fetches and three sleeps.
C10_Witness ==
    /\ proc.pc = "done"
    /\ proc.outcome = "error"
    /\ proc.netCalls = 4
    /\ Len(proc.sleeps) = 3


\* ---------------------------------------------------------------------------
\* The rate limiter's functions under test: shouldRetry, categorizeError and
\* calculateBackoffDelay applied to arguments drawn at the start.
\* ---------------------------------------------------------------------------

MaxAttemptArg == 6

HttpStatuses == {0} \cup 100..599
ErrorArgs ==
    { httpError(st) : st \in HttpStatuses }
        \cup {networkError, transportError, parseError, admissionError}
RandomArgs == { 5 * n : n \in 0..199 }          \* Math.random() in [0, 1)

FunctionArgs ==
    { [fn |-> "shouldRetry", error |-> e, attempt |-> a] :
          e \in ErrorArgs, a \in 1..MaxAttemptArg }
    \cup { [fn |-> "categorizeError", error |-> e, statusCode |-> e.status] :
          e \in ErrorArgs }
    \cup { [fn |-> "calculateBackoffDelay", attempt |-> a, rnd |-> r] :
          a \in 1..MaxAttemptArg, r \in RandomArgs }

FunctionsInit ==
    /\ CacheInit /\ ClassifyIdle /\ RetryIdle
    /\ fnArgs \in FunctionArgs
    /\ fnResult = [done |-> FALSE]

CallShouldRetry ==
    /\ fnArgs.fn = "shouldRetry" /\ ~fnResult.done
    /\ fnResult' = [done |-> TRUE,
                    value |-> shouldRetry(fnArgs.error, fnArgs.attempt)]
    /\ UNCHANGED <<cacheVars, classifyVars, retryVars, sink, fnArgs>>

CallCategorizeError ==
    /\ fnArgs.fn = "categorizeError" /\ ~fnResult.done
    /\ fnResult' = [done |-> TRUE,
                    value |-> categorizeError(fnArgs.error, fnArgs.statusCode)]
    /\ UNCHANGED <<cacheVars, classifyVars, retryVars, sink, fnArgs>>

CallCalculateBackoffDelay ==
    /\ fnArgs.fn = "calculateBackoffDelay" /\ ~fnResult.done
    /\ fnResult' = [done |-> TRUE,
                    value |-> calculateBackoffDelay(fnArgs.attempt, fnArgs.rnd)]
    /\ UNCHANGED <<cacheVars, classifyVars, retryVars, sink, fnArgs>>

FunctionsNext ==
    \/ CallShouldRetry
    \/ CallCategorizeError
    \/ CallCalculateBackoffDelay

SpecFunctions == FunctionsInit /\ [][FunctionsNext]_vars

\* The category table as documented: by status for a response, by the kind
\* of failure otherwise.
TableCategory(e) ==
    IF e.kind = "http" /\ e.status = 429 THEN "RATE_LIMIT"
    ELSE IF e.kind = "http" /\ e.status = 403 THEN "AUTH_ERROR"
    ELSE IF e.kind = "http" /\ e.status = 404 THEN "NOT_FOUND"
    ELSE IF e.kind = "http" /\ e.status \in 400..499 THEN "CLIENT_ERROR"
    ELSE IF e.kind = "http" /\ e.status \in 500..599 THEN "SERVER_ERROR"
    ELSE IF e.kind \in {"network", "transport"} THEN "NETWORK_ERROR"
    ELSE "UNKNOWN_ERROR"

\* C11 -- shouldRetry is false for CLIENT_ERROR, AUTH_ERROR and NOT_FOUND
\* errors at every attempt, true for SERVER_ERROR, RATE_LIMIT and
\* NETWORK_ERROR errors while attempt < maxAttempts, and false for every
\* error from attempt maxAttempts on.
C11_ShouldRetryByCategory ==
    (fnArgs.fn = "shouldRetry" /\ fnResult.done) =>
        LET cat == TableCategory(fnArgs.error) IN
        /\ cat \in {"CLIENT_ERROR", "AUTH_ERROR", "NOT_FOUND"} => ~fnResult.value
        /\ (cat \in {"SERVER_ERROR", "RATE_LIMIT", "NETWORK_ERROR"}
                /\ fnArgs.attempt < 4) => fnResult.value
        /\ fnArgs.attempt >= 4 => ~fnResult.value

\* shouldRetry has answered true for a 503 at attempt 3.
C11_Witness ==
    /\ fnArgs.fn = "shouldRetry"
    /\ fnArgs.error = [kind |-> "http", status |-> 503]
    /\ fnArgs.attempt = 3
    /\ fnResult.done /\ fnResult.value

\* C12 -- categorizeError gives every input the one category of the table:
\* 429 RATE_LIMIT, 403 AUTH_ERROR, 404 NOT_FOUND, other 4xx CLIENT_ERROR,
\* 5xx SERVER_ERROR, a transport failure NETWORK_ERROR, anything else
\* UNKNOWN_ERROR.
C12_CategoryFollowsTable ==
    (fnArgs.fn = "categorizeError" /\ fnResult.done) =>
        fnResult.value = TableCategory(fnArgs.error)

\* C13 -- the backoff delay is min(1000 * 2^(a-1), 10000) moved by at most
\* 10% of that value either way and never below 0; the value without jitter
\* does not decrease with a, and the delay lies in [0, 11000].
CappedDelay(a) == IF a >= 5 THEN 10000 ELSE <<1000, 2000, 4000, 8000>>[a]

C13_BackoffWithinJitterOfCappedDelay ==
    (fnArgs.fn = "calculateBackoffDelay" /\ fnResult.done) =>
        LET a == fnArgs.attempt
            d == fnResult.value
        IN  /\ 10 * d >= 9 * CappedDelay(a)
            /\ 10 * d <= 11 * CappedDelay(a)
            /\ d >= 0
            /\ d <= 11000
            /\ calculateBackoffDelay(a, 500) = CappedDelay(a)
            /\ calculateBackoffDelay(a, 500) <= calculateBackoffDelay(a + 1, 500)

\* The delay of attempt 5 has been computed at the cap with the largest
\* downward jitter.
C13_Witness ==
    /\ fnArgs.fn = "calculateBackoffDelay"
    /\ fnArgs.attempt = 5
    /\ fnArgs.rnd = 0
    /\ fnResult.done
    /\ fnResult.value = 9000


\* ---------------------------------------------------------------------------
\* invalidate(pattern) with every kind of matcher, and set with a duration
\* of its own, over a store of a few keys.
\* ---------------------------------------------------------------------------

\* A matcher is a string, a RegExp or something else (null, a number, ...).
\* A RegExp here is a literal text with or without the g flag; lastIndex is
\* the position the next test() of a g pattern starts from.
stringMatcher(text) == [type |-> "string", text |-> text]
regExpMatcher(source, global) ==
    [type |-> "RegExp", source |-> source, global |-> global]
otherMatcher == [type |-> "other"]

\* First position (0-based) at or after `from` where source occurs in key,
\* or -1.
searchFrom(key, source, from) ==
    LET hits == { i \in from..(Len(key) - Len(source)) :
                      SubSeq(key, i + 1, i + Len(source)) = source }
    IN  IF hits = {} THEN -1
        ELSE CHOOSE i \in hits : \A j \in hits : i <= j

\* RegExp.prototype.test: a g pattern searches from lastIndex and leaves it
\* after the match, or at 0 when there is none; otherwise it searches from 0.
regExpTest(re, lastIndex, key) ==
    LET at == searchFrom(key, re.source, IF re.global THEN lastIndex ELSE 0)
    IN  [ match |-> at # -1,
          lastIndex |-> IF ~re.global THEN lastIndex
                        ELSE IF at = -1 THEN 0
                        ELSE at + Len(re.source) ]

\* The loop of invalidate over the Map for a RegExp, entry i onwards.
RECURSIVE invalidateRegExp(_, _, _, _)
invalidateRegExp(c, re, i, lastIndex) ==
    IF i > Len(c) THEN [cache |-> <<>>, count |-> 0]
    ELSE LET r == regExpTest(re, lastIndex, c[i].key)
             rest == invalidateRegExp(c, re, i + 1, r.lastIndex)
         IN  IF r.match
             THEN [cache |-> rest.cache, count |-> rest.count + 1]
             ELSE [cache |-> <<c[i]>> \o rest.cache, count |-> rest.count]

\* invalidate(pattern) for any argument
invalidateAny(c, m) ==
    CASE m.type = "string" -> invalidate(c, m.text)
      [] m.type = "RegExp" -> invalidateRegExp(c, m, 1, 0)
      [] OTHER -> [cache |-> c, count |-> 0]

InvalidateAny(m) ==
    /\ cache' = invalidateAny(cache, m).cache
    /\ written' = noteDrop(written, keysOf(cache) \ keysOf(cache'))
    /\ UNCHANGED <<nonCacheVars, sink, now, ticks, pendingRequests, fetches,
                   calls, metrics, nextCleanup>>

MaxStoreTicks == 1

K_photos6 == P_photos \o <<"6">>
K_photos_date == P_photos_date \o <<"x">>
StoreKeys == {K_manifest, K_photos, K_photos6, K_photos_date}
StorePayloads == {"M"}
TTLArgs == {NULL, 0, 1000}
StoreSteps == {1000}
Matchers ==
    { stringMatcher(t) : t \in {P_photos, P_manifest, <<"_">>, <<>>} }
        \cup { regExpMatcher(P_photos, g) : g \in BOOLEAN }
        \cup { otherMatcher }

StoreNext ==
    \/ \E k \in StoreKeys, v \in StorePayloads, ttl \in TTLArgs : Set(k, v, ttl)
    \/ \E m \in Matchers : InvalidateAny(m)
    \/ \E d \in StoreSteps : ticks < MaxStoreTicks /\ Tick(d)

SpecStore == Init /\ [][StoreNext]_vars


\* A key matches a string when it contains it, and a pattern when the
\* pattern's text occurs in it.
Matches(m, key) ==
    CASE m.type = "string" -> \E i \in 0..(Len(key) - Len(m.text)) :
                                  SubSeq(key, i + 1, i + Len(m.text)) = m.text
      [] m.type = "RegExp" -> \E i \in 0..(Len(key) - Len(m.source)) :
                                  SubSeq(key, i + 1, i + Len(m.source)) = m.source
      [] OTHER -> FALSE

\* C15 -- invalidate(matcher) deletes exactly the entries whose key matches,
\* leaves the others as they were and in place, and returns how many it
\* deleted.
C15_InvalidateDeletesExactlyMatches ==
    [][\A m \in Matchers :
          InvalidateAny(m)
          => /\ cache' = SelectSeq(cache, LAMBDA e : ~Matches(m, e.key))
             /\ invalidateAny(cache, m).count
                   = Cardinality({i \in 1..Len(cache) : Matches(m, cache[i].key)})]_vars

\* C16 -- set with a duration of its own (any value but null, 0 included)
\* stores expires = now + that duration; set without one stores
\* expires = now + the duration of the key's tier.
C16_SetUsesOverrideWheneverGiven ==
    [][\A k \in StoreKeys, v \in StorePayloads, ttl \in TTLArgs :
          Set(k, v, ttl)
          => LET e == cache'[indexOf(cache', k)]
             IN  /\ e.timestamp = now
                 /\ e.expires = now + (IF ttl # NULL THEN ttl ELSE TierTTL(k))]_vars

\* C14 -- when a call ends in failure the error handed to the caller carries
\* the category of the final attempt and, for a response, its HTTP status.
C14_FailureCarriesCategoryAndStatus ==
    (proc.pc = "done" /\ proc.outcome = "error" /\ proc.error.kind # "admission")
        => /\ "status" \in DOMAIN proc.error
           /\ proc.error.kind = "http" => proc.error.status \in Statuses
           /\ "category" \in DOMAIN proc.error
           /\ proc.error.category = TableCategory(proc.error)


\* C17 -- get(k) on an entry with now > expires answers a miss, deletes the
\* entry, counts one miss and reports one eviction to performanceMonitor; a
\* further get(k) is a miss that reports no eviction.
C17_ExpiredGetReportsOneEviction ==
    [][\A k \in Keys :
          (Get(k) /\ indexOf(cache, k) # 0 /\ now > cache[indexOf(cache, k)].expires)
          => /\ ~get(cache, metrics, k, now).hit
             /\ indexOf(cache', k) = 0
             /\ metrics'.misses = metrics.misses + 1
             /\ sink'.evictions = sink.evictions + 1
             /\ ~get(cache', metrics', k, now').hit
             /\ reportGet(sink', cache', k, now').evictions = sink'.evictions]_vars


\* C18 -- once now > expires has held for the entry stored by the last set of
\* k, neither get(k) nor a resolve of k answers from the cache again until k
\* is set anew, whatever get, optimize and the sweep do in between.
C18_LapsedEntryStaysAbsent ==
    \A k \in DOMAIN written :
        written[k].lapsed
        => /\ ~get(cache, metrics, k, now).hit
           /\ deduplicateRequest(cache, metrics, pendingRequests, fetches,
                                 k, now).via # "cache"

\* C19 -- a realTime entry (status_ or live_ key) never has expires later
\* than now + 60 s, however often it was read and optimize() was run.
C19_RealTimeNeverPastItsCeiling ==
    \A i \in 1..Len(cache) :
        (startsWith(cache[i].key, P_status) \/ startsWith(cache[i].key, P_live))
        => cache[i].expires <= now + 60 * 1000


\* ---------------------------------------------------------------------------
\* The cap on the entry count: keys are added one after another, read and
\* aged, until a set pushes the count above maxSize.
\* ---------------------------------------------------------------------------

\* Reads and clock steps together.
MaxCapEvents == 2

Digit == <<"0", "1", "2", "3", "4", "5", "6", "7", "8", "9">>
CapKey(n) == <<"k", "_", Digit[(n \div 10) + 1], Digit[(n % 10) + 1]>>
CapKeys == { CapKey(n) : n \in 1..(maxSize + 2) }
CapPayloads == {"M"}
CapSteps == {1000}

\* Keys are added in the order of their numbers: the next one is the one
\* after the highest the cache holds.
keyNumber(key) == CHOOSE n \in 1..(maxSize + 2) : CapKey(n) = key
lastNumber(c) ==
    IF c = <<>> THEN 0
    ELSE CHOOSE n \in {keyNumber(c[i].key) : i \in 1..Len(c)} :
            \A i \in 1..Len(c) : keyNumber(c[i].key) <= n

CapacityNext ==
    \/ \E v \in CapPayloads :
          lastNumber(cache) < maxSize + 2 /\ Set(CapKey(lastNumber(cache) + 1), v, NULL)
    \/ \E v \in CapPayloads :
          Len(cache) > 0 /\ cache[1].timestamp < now /\ Set(cache[1].key, v, NULL)
    \/ \E k \in keysOf(cache) :
          ticks + metrics.hits + metrics.misses < MaxCapEvents /\ Get(k)
    \/ \E d \in CapSteps :
          ticks + metrics.hits + metrics.misses < MaxCapEvents /\ Tick(d)

SpecCapacity == Init /\ [][CapacityNext]_vars


\* C20 -- a set that pushes the entry count above the cap evicts a tenth of
\* the cap's worth of entries, none of them accessed later than an entry
\* that stays, and never the entry just set; after every set the count is at
\* most the cap.
C20_OverflowEvictsLeastRecentTenth ==
    [][\A k \in CapKeys, v \in CapPayloads :
          (now' = now /\ metrics' = metrics /\ Set(k, v, NULL))
          => LET entered == mapSet(cache, [key |-> k, lastAccessed |-> now])
                 evicted == { i \in 1..Len(entered) :
                                 entered[i].key \notin keysOf(cache') }
                 retained == (1..Len(entered)) \ evicted
             IN  /\ Len(cache') <= maxSize
                 /\ k \in keysOf(cache')
                 /\ Len(entered) <= maxSize => evicted = {}
                 /\ Len(entered) > maxSize =>
                       /\ Cardinality(evicted) = maxSize \div 10
                       /\ \A i \in evicted, j \in retained :
                             entered[i].lastAccessed <= entered[j].lastAccessed]_vars

\* The cap was exceeded by a set and the least recently accessed entry went:
\* the first key, read late, is still held while the second is gone.
C20_Witness ==
    /\ Len(cache) = maxSize
    /\ CapKey(1) \in keysOf(cache)
    /\ CapKey(2) \notin keysOf(cache)
    /\ CapKey(maxSize + 1) \in keysOf(cache)


\* ---------------------------------------------------------------------------
\* Entries stored with a duration of the caller's choosing: one key per
\* behaviour is written, then read, promoted, swept and invalidated while
\* time passes.
\* ---------------------------------------------------------------------------

MaxOverrideTicks == 2
MaxOverrideReads == 11

OverrideKeys == {K_photos, K_status}
OverridePayloads == {"M"}
\* set(key, data, customTTL): no argument, zero, a negative number, two hours.
OverrideTTLs == {NULL, 0, -1000, 2 * 60 * 60 * 1000}
OverrideSteps == {1, 11 * 60 * 1000, 59 * 60 * 1000}

OverrideNext ==
    \/ \E k \in OverrideKeys, v \in OverridePayloads, ttl \in OverrideTTLs :
          /\ \/ written = <<>>
             \/ k \in DOMAIN written /\ metrics.hits + metrics.misses = 0
          /\ Set(k, v, ttl)
    \/ \E k \in DOMAIN written :
          metrics.hits + metrics.misses < MaxOverrideReads /\ Get(k)
    \/ \E p \in {P_photos, P_status} : written # <<>> /\ Invalidate(p)
    \/ Optimize
    \/ Sweep
    \/ \E d \in OverrideSteps : ticks < MaxOverrideTicks /\ Tick(d)

SpecOverride == Init /\ [][OverrideNext]_vars

\* C21 -- every entry in the cache has expires > timestamp, whatever
\* customTTL it was set with and whatever get, optimize(), invalidate and
\* the sweep did since.
C21_ExpiresAfterCreated ==
    \A i \in 1..Len(cache) : cache[i].expires > cache[i].timestamp


\* The durations the developer guide gives for the four tiers.
DocumentedTTL(type) ==
    CASE type = "static" -> 60 * 60 * 1000
      [] type = "semiStatic" -> 30 * 60 * 1000
      [] type = "dynamic" -> 5 * 60 * 1000
      [] type = "realTime" -> 30 * 1000

\* C22 -- the tiers last as the developer guide says (static 60 min,
\* semi-static 30 min, dynamic 5 min, real-time 30 s): an entry set without a
\* duration of its own and not promoted since is stored for the documented
\* duration of its tier, and a real-time one is a miss once more than 30 s
\* have passed since its set.
C22_TiersLastAsDocumented ==
    \A k \in DOMAIN written :
        (written[k].ttl = NULL /\ ~written[k].promoted)
        => /\ indexOf(cache, k) # 0
              => cache[indexOf(cache, k)].expires
                    = written[k].at + DocumentedTTL(getCacheType(k))
           /\ (getCacheType(k) = "realTime" /\ now - written[k].at > 30 * 1000)
              => ~get(cache, metrics, k, now).hit


\* C23 -- the pending entry of a key is there exactly while the request that
\* created it is unsettled: every unsettled request is the pending entry of
\* its key, and every pending entry names an unsettled request of its key.
\* (Nothing but that request's own settlement removes the entry, and the
\* settlement of a request removes no entry of another request.)
C23_PendingEntryLivesWithItsFetch ==
    /\ \A f \in 1..Len(fetches) :
          fetches[f].state = "pending"
          => /\ fetches[f].key \in DOMAIN pendingRequests
             /\ pendingRequests[fetches[f].key] = f
    /\ \A k \in DOMAIN pendingRequests :
          /\ pendingRequests[k] \in 1..Len(fetches)
          /\ fetches[pendingRequests[k]].key = k
          /\ fetches[pendingRequests[k]].state = "pending"


\* C24 -- optimize() changes expires only of entries with accessCount above
\* 10 and a tier other than static; the new expires is never earlier than
\* the old one and never later than now + 60 min.
C24_PromotionOnlyExtends ==
    [][Optimize
       => \A i \in 1..Len(cache) :
             LET e == cache[i]
                 j == indexOf(cache', e.key)
             IN  j # 0
                 => /\ cache'[j].expires # e.expires
                       => /\ e.accessCount > 10
                          /\ e.type # "static"
                          /\ cache'[j].expires <= now + 60 * 60 * 1000
                    /\ cache'[j].expires >= e.expires]_vars


\* C25 -- the fetches made within any trailing hour never outnumber
\* MAX_REQUESTS_PER_HOUR: the window never holds more than that many
\* timestamps less than an hour old.
C25_WindowNeverExceedsQuota ==
    Cardinality(withinLastHour(requests, now)) <= MAX_REQUESTS_PER_HOUR


\* C26 -- with no duration given to set, a value that get(k) or a resolve
\* of k answers from the cache was stored by a set at most 60 min earlier.
C26_NoAnswerOlderThanAnHour ==
    \A k \in DOMAIN written :
        ( /\ written[k].ttl = NULL
          /\ \/ get(cache, metrics, k, now).hit
             \/ deduplicateRequest(cache, metrics, pendingRequests, fetches,
                                   k, now).via = "cache" )
        => now - written[k].at <= 60 * 60 * 1000


\* C27 -- invalidate(pattern) leaves the pending map as it was; a request
\* that is unsettled for a matching key when invalidate runs still stores
\* its result when it fulfils, and a deduplicateRequest for that key issued
\* after the invalidate and before the settlement is handed that request's
\* promise and starts no request of its own.
C27_InvalidateSparesRequestsInFlight ==
    [][\A p \in Patterns :
          Invalidate(p)
          => /\ pendingRequests' = pendingRequests
             /\ fetches' = fetches
             /\ \A f \in 1..Len(fetches) :
                   (fetches[f].state = "pending" /\ includes(fetches[f].key, p))
                   => LET k == fetches[f].key
                          next == deduplicateRequest(cache', metrics',
                                     pendingRequests', fetches', k, now')
                      IN  /\ \A v \in Payloads :
                                LET c2 == onFulfilled(cache', metrics',
                                             pendingRequests', k, v, now').cache
                                IN  /\ indexOf(c2, k) # 0
                                    /\ c2[indexOf(c2, k)].data = v
                          /\ next.via = "pending"
                          /\ next.promise = f
                          /\ next.fetches = fetches]_vars


\* C28 -- every fetch that settles is recorded with recordApiRequest exactly
\* once: as a success for an ok response, and for a response that is not ok
\* as a failure under the category of that response's status; a call refused
\* at admission is recorded once, and nothing else is recorded.
C28_OneRecordPerAttempt ==
    [][/\ \A resp \in Responses, rnd \in RandomDraws :
             Respond(resp, rnd)
             => /\ Len(proc'.log) = Len(proc.log) + 1
                /\ SubSeq(proc'.log, 1, Len(proc.log)) = proc.log
                /\ LET r == proc'.log[Len(proc'.log)]
                   IN  CASE resp.kind = "http" /\ resp.status \in 200..299 ->
                                r.success
                         [] resp.kind = "http" ->
                                /\ ~r.success
                                /\ r.errorType
                                      = TableCategory(httpError(resp.status))
                         [] OTHER -> ~r.success
       /\ Start => Len(proc'.log) = (IF proc'.pc = "done" THEN 1 ELSE 0)
       /\ Wake => proc'.log = proc.log]_vars


\* C29 -- optimize() deletes only entries that have already expired: an
\* entry with now <= expires is still in the cache after it, whatever
\* duration it was set with.
C29_OptimizeDeletesOnlyExpired ==
    [][Optimize
       => \A i \in 1..Len(cache) :
             ~(now > cache[i].expires) => indexOf(cache', cache[i].key) # 0]_vars


\* ---------------------------------------------------------------------------
\* Reads among other entries and requests in flight: two keys are set,
\* requested and read while time passes.
\* ---------------------------------------------------------------------------

MaxGets == 3
MaxReadTicks == 1

ReadKeys == {K_photos, K_status}
ReadPayloads == {"M"}
ReadSteps == {61 * 1000}

ReadNext ==
    \/ \E k \in ReadKeys, v \in ReadPayloads :
          indexOf(cache, k) = 0 /\ Set(k, v, NULL)
    \/ \E k \in ReadKeys : Resolve(k)
    \/ \E k \in ReadKeys : metrics.hits + metrics.misses < MaxGets /\ Get(k)
    \/ \E d \in ReadSteps : ticks < MaxReadTicks /\ Tick(d)

SpecRead == Init /\ [][ReadNext]_vars

\* C30 -- a get(k) that hits adds one to the entry's accessCount and sets
\* its lastAccessed to now, and changes nothing else: not the entry's data,
\* timestamp, expires or type, no other entry, not the pending map; a get(k)
\* of a key the cache does not hold changes no entry.
C30_GetTouchesOnlyAccessFields ==
    [][\A k \in ReadKeys :
          Get(k)
          => LET i == indexOf(cache, k) IN
             /\ pendingRequests' = pendingRequests
             /\ fetches' = fetches
             /\ i = 0 => cache' = cache
             /\ (i # 0 /\ ~(now > cache[i].expires))
                => /\ Len(cache') = Len(cache)
                   /\ \A j \in 1..Len(cache) : j # i => cache'[j] = cache[j]
                   /\ cache'[i].key = k
                   /\ cache'[i].data = cache[i].data
                   /\ cache'[i].timestamp = cache[i].timestamp
                   /\ cache'[i].expires = cache[i].expires
                   /\ cache'[i].type = cache[i].type
                   /\ cache'[i].size = cache[i].size
                   /\ cache'[i].accessCount = cache[i].accessCount + 1
                   /\ cache'[i].lastAccessed = now]_vars

\* One entry was read by get some time after its set, beside an entry never
\* read and a request in flight.
C30_Witness ==
    /\ \E i \in 1..Len(cache) :
          /\ cache[i].accessCount = 1
          /\ cache[i].lastAccessed > cache[i].timestamp
          /\ cache[i].expires = cache[i].timestamp + getCacheDuration(cache[i].key)
    /\ \E j \in 1..Len(cache) : cache[j].accessCount = 0
    /\ pendingRequests # <<>>
    /\ \A n \in 1..Len(calls) : calls[n].via = "request"
    /\ metrics.hits = 1
====
